---- MODULE Spec2Model ----
(***************************************************************************)
(* A model of libxo (libxo.c): one xo_handle_t, its structural stack, its  *)
(* two growable buffers and the sink it writes to.                         *)
(*                                                                         *)
(* A text is a sequence of runs [c, n]: n bytes of the token c.  A single  *)
(* character is a run of length 1, Spaces(k) is one run of k blanks, a     *)
(* string constant of the source is one run as long as the constant.  A    *)
(* name is a single character.  The bytes an undefined operation leaves    *)
(* behind are the text Garbage.                                            *)
(***************************************************************************)
EXTENDS Integers, Sequences, FiniteSets, TLC

VARIABLES
    xop,     \* the xo_handle_t
    last,    \* what the last call did: its result, sink writes and warnings
    frames,  \* history: the root and every frame pushed and not yet popped
    xo_default_inited   \* the handle is initialised (xo_default_init or xo_create ran)

vars == <<xop, last, frames, xo_default_inited>>

-----------------------------------------------------------------------------
(* Program constants *)

XO_INDENT_BY == 2
XO_BUFSIZ == 8192
XO_DEPTH == 512
USHRT_RANGE == 65536

(* Bounds of the model *)

MaxDepth == 2
MaxGrow == 1
MaxSkew == 2
MaxAppends == 3

Names == {"a", "b"}
Styles == {"TEXT", "XML", "JSON", "HTML"}

NULL == "NULL"
JUNK == "JUNK"
NUL == "NUL"

-----------------------------------------------------------------------------
(* Text *)

Lit(s, n) == <<[c |-> s, n |-> n]>>

Str(s) == [i \in 1..Len(s) |-> [c |-> s[i], n |-> 1]]

Spaces(n) == IF n > 0 THEN Lit(" ", n) ELSE <<>>

Garbage == Lit("?", 0)

RECURSIVE TextLen(_)
TextLen(p) == IF p = <<>> THEN 0 ELSE Head(p).n + TextLen(Tail(p))

RECURSIVE Trunc(_, _)
Trunc(p, k) ==
    IF p = <<>> \/ k <= 0 THEN <<>>
    ELSE IF Head(p).n <= k THEN <<Head(p)>> \o Trunc(Tail(p), k - Head(p).n)
    ELSE Lit(Head(p).c, k)

Count(p, c) == Cardinality({i \in 1..Len(p) : p[i].c = c})

Contains(p, q) ==
    \E i \in 0..(Len(p) - Len(q)) : \A j \in 1..Len(q) : p[i + j] = q[j]

-----------------------------------------------------------------------------
(* The sink: xo_write_to_file returns what fprintf returns, the number of  *)
(* bytes written or a negative value.                                      *)

xo_write_to_file(data, sinkOK) == IF sinkOK THEN TextLen(data) ELSE -1

(* The memory xo_realloc(NULL, ...) returns is not initialised: a stack    *)
(* slot nobody wrote holds zeroes or junk.                                 *)

UninitFrames ==
    { [xs_flags |-> {}, xs_name |-> NULL],
      [xs_flags |-> {"NOT_FIRST", "LIST", "INSTANCE"}, xs_name |-> JUNK] }

(* xo_create does not set xo_indent; the default handle is static, so its  *)
(* xo_indent starts as 0.                                                  *)

UninitIndent == {0, USHRT_RANGE - 1}

xo_buf_init == [size |-> XO_BUFSIZ, curp |-> "bufp"]

xo_init_handle(style, flags, indent, slot) ==
    [ xo_style     |-> style,
      xo_flags     |-> flags,
      xo_indent    |-> indent,
      xo_indent_by |-> XO_INDENT_BY,
      xo_depth     |-> 0,
      xo_stack     |-> [i \in 0..MaxDepth |-> slot],
      xo_data      |-> xo_buf_init,
      xo_fmt       |-> xo_buf_init,
      xo_write     |-> "xo_write_to_file",
      xo_close     |-> NULL,
      xo_formatter |-> NULL,
      xo_info      |-> NULL,
      lost         |-> FALSE ]

-----------------------------------------------------------------------------
(* xo_buf_has_room: `used` bytes of `size` are taken and `len` more are    *)
(* wanted.  The buffer grows by one chunk, once, whatever len is.          *)

xo_buf_has_room(size, used, len, mem) ==
    IF used + len >= size
    THEN IF mem THEN [ok |-> TRUE, size |-> size + XO_BUFSIZ, asked |-> {"mem"}]
         ELSE [ok |-> FALSE, size |-> size, asked |-> {"mem"}]
    ELSE [ok |-> TRUE, size |-> size, asked |-> {}]

(* xo_indent: the number of spaces to indent by *)

xo_indent(h) ==
    IF "PRETTY" \in h.xo_flags THEN h.xo_indent * h.xo_indent_by ELSE 0

(* xo_printf: format into the data buffer and hand it to the sink.  `text` *)
(* is the complete formatted text, rc its length.  vsnprintf stores at     *)
(* most left - 1 bytes.  When rc > xb_size the buffer grows by one chunk   *)
(* and the retry formats into the old insertion point with the old `left`  *)
(* and a va_list that was already consumed: the bytes are the truncated    *)
(* text or garbage (ub).  With a dangling insertion point (left by         *)
(* xo_emit_hv) the text never reaches the memory handed to the sink.       *)

xo_printf(h, text, mem, ub, sinkOK) ==
    LET xbp  == h.xo_data
        left == xbp.size
        rc   == TextLen(text)
        kept == IF xbp.curp = "dangling" THEN Garbage
                ELSE IF rc < left THEN text ELSE Trunc(text, left - 1)
        room == xo_buf_has_room(xbp.size, 0, rc, mem)
        data == IF ub THEN Garbage ELSE kept
    IN  IF rc > xbp.size
        THEN IF ~room.ok
             THEN [ h |-> h, rc |-> -1, out |-> <<>>, wrc |-> <<>>, nomem |-> TRUE,
                    asked |-> {"mem"} ]
             ELSE [ h   |-> [h EXCEPT !.xo_data = [size |-> room.size, curp |-> "bufp"]],
                    rc  |-> xo_write_to_file(data, sinkOK),
                    out |-> <<data>>,
                    wrc |-> <<xo_write_to_file(data, sinkOK)>>,
                    nomem |-> FALSE,
                    asked |-> {"mem", "ub", "sink"} ]
        ELSE [ h   |-> [h EXCEPT !.xo_data.curp = "bufp"],
               rc  |-> xo_write_to_file(kept, sinkOK),
               out |-> <<kept>>,
               wrc |-> <<xo_write_to_file(kept, sinkOK)>>,
               nomem |-> FALSE,
               asked |-> {"sink"} ]

-----------------------------------------------------------------------------
(* xo_depth_change: push or pop one frame. *)

Keeps(h) == (h.xo_flags \cap {"XPATH", "WARN"}) # {}

(* Push: the frame's flags are stored; its name is copied when Xpath or    *)
(* Warn is set and the copy can be allocated, otherwise xs_name keeps what *)
(* the slot held.  A copy the slot pointed to before is not released: no   *)
(* pointer to it is left (lost).                                           *)

Owned(xs_name) == xs_name \notin {NULL, JUNK}

DepthPush(h, name, delta, indent, flags, mem) ==
    [ h |-> [h EXCEPT
               !.xo_stack[h.xo_depth + delta] =
                   [ xs_flags |-> flags,
                     xs_name  |-> IF Keeps(h) /\ mem THEN name ELSE @.xs_name ],
               !.xo_depth = @ + delta,
               !.xo_indent = (@ + indent) % USHRT_RANGE,
               !.lost = @ \/ (Keeps(h) /\ mem
                               /\ Owned(h.xo_stack[h.xo_depth + delta].xs_name))],
      warns |-> <<>>,
      nomem |-> Keeps(h) /\ ~mem,
      asked |-> IF Keeps(h) THEN {"mem"} ELSE {} ]

(* Pop with an empty stack: a warning when Warn is set, and nothing else.  *)

(* A pop with an empty stack that never warns. *)

DepthEmpty_Silent(h) == [h |-> h, warns |-> <<>>, nomem |-> FALSE, asked |-> {}]

DepthEmpty(h) ==
    [ h |-> h,
      warns |-> IF "WARN" \in h.xo_flags THEN <<"close with empty stack">> ELSE <<>>,
      nomem |-> FALSE, asked |-> {} ]

(* Pop: comparing the requested name with a junk xs_name is undefined, it  *)
(* warns or not (ub).  The name is released only when Xpath is set.        *)

DepthPop(h, name, delta, indent, flags, ub) ==
    LET xsp == h.xo_stack[h.xo_depth]
        warn == "WARN" \in h.xo_flags
        top == xsp.xs_name
        differs == IF top = JUNK THEN ub ELSE top # name
        w1 == IF warn /\ top # NULL /\ differs THEN <<"incorrect close">> ELSE <<>>
        w2 == IF warn /\ (("LIST" \in xsp.xs_flags) # ("LIST" \in flags))
              THEN <<"list close on list confict">> ELSE <<>>
        w3 == IF warn /\ (("INSTANCE" \in xsp.xs_flags) # ("INSTANCE" \in flags))
              THEN <<"list close on instance confict">> ELSE <<>>
        freed == "XPATH" \in h.xo_flags /\ top # NULL
    IN  [ h |-> [h EXCEPT
                   !.xo_stack[h.xo_depth].xs_name = IF freed THEN NULL ELSE @,
                   !.xo_depth = @ + delta,
                   !.xo_indent = (@ + indent + USHRT_RANGE) % USHRT_RANGE],
          warns |-> w1 \o w2 \o w3,
          nomem |-> FALSE,
          asked |-> IF warn /\ top = JUNK THEN {"ub"} ELSE {} ]

xo_depth_change(h, name, delta, indent, flags, mem, ub) ==
    IF delta >= 0 THEN DepthPush(h, name, delta, indent, flags, mem)
    ELSE IF h.xo_depth = 0 THEN DepthEmpty(h)
    ELSE DepthPop(h, name, delta, indent, flags, ub)

NotFirst(h) == "NOT_FIRST" \in h.xo_stack[h.xo_depth].xs_flags

SetNotFirst(h) ==
    [h EXCEPT !.xo_stack[h.xo_depth].xs_flags = @ \cup {"NOT_FIRST"}]

-----------------------------------------------------------------------------
(* History: frames[1] stands for the root, the others for the frames       *)
(* pushed, each with the call that pushed it, the style at that time and   *)
(* whether a child was written into it since.                              *)

Frame(kind, name, h) ==
    [kind |-> kind, name |-> name, style |-> h.xo_style, kids |-> FALSE]

Top == frames[Len(frames)]

Child == [frames EXCEPT ![Len(frames)].kids = TRUE]

Pushed(kind, name, h) == Append(Child, Frame(kind, name, h))

Popped(h) ==
    IF h.xo_depth > 0 /\ Len(frames) > 1 THEN SubSeq(frames, 1, Len(frames) - 1)
    ELSE frames

Matches(kind, name) == Len(frames) > 1 /\ Top.kind = kind /\ Top.name = name

(* The environment of a call: whether xo_realloc succeeds (mem), how an    *)
(* undefined operation comes out (ub), whether the sink accepts the write  *)
(* (sinkOK).  A call that never asks keeps the default.                    *)

Asked(asked, mem, ub, sinkOK) ==
    /\ ~mem => "mem" \in asked
    /\ ub => "ub" \in asked
    /\ ~sinkOK => "sink" \in asked

(* The values of the environment that can matter in the current state:    *)
(* an allocation happens only to keep a name or when an indented line      *)
(* outgrows the data buffer, an operation is undefined only on a junk name *)
(* or in the retry of an outgrown line, the sink is called only in XML and *)
(* JSON.                                                                   *)

LongLine == xo_indent(xop) + 8 >= xop.xo_data.size

MemEnv == IF Keeps(xop) \/ LongLine THEN BOOLEAN ELSE {TRUE}

UbEnv ==
    IF xop.xo_stack[xop.xo_depth].xs_name = JUNK \/ LongLine THEN BOOLEAN ELSE {FALSE}

SinkEnv == IF xop.xo_style \in {"XML", "JSON"} THEN BOOLEAN ELSE {TRUE}

(* No buffer of the model grows beyond MaxGrow chunks: when that much was  *)
(* allocated the next allocation fails.                                    *)

Cap == XO_BUFSIZ * (1 + MaxGrow)

(* xo_indent is followed up to MaxSkew steps away from 0, in either        *)
(* direction of the unsigned short.                                        *)

Skewed(h) == h.xo_indent > MaxSkew /\ h.xo_indent < USHRT_RANGE - MaxSkew

Result(op, name, rc, out, wrc, warns, nomem, values) ==
    [ op |-> op, name |-> name, rc |-> rc, out |-> out, wrc |-> wrc, warns |-> warns,
      nomem |-> nomem, values |-> values, hook |-> <<>> ]

Step(h2, result, fr) ==
    /\ h2.xo_data.size <= Cap
    /\ h2.xo_fmt.size <= Cap
    /\ ~Skewed(h2)
    /\ xo_default_inited
    /\ UNCHANGED xo_default_inited
    /\ xop' = h2
    /\ last' = result
    /\ frames' = fr

Done(op, name, h2, rc, out, wrc, warns, nomem, fr) ==
    Step(h2, Result(op, name, rc, out, wrc, warns, nomem, 0), fr)

-----------------------------------------------------------------------------
(* The structural operations *)

Ppn(h) == IF "PRETTY" \in h.xo_flags THEN Str(<<"\n">>) ELSE <<>>

PreNl(h) ==
    IF NotFirst(h)
    THEN IF "PRETTY" \in h.xo_flags THEN Str(<<",", "\n">>) ELSE Str(<<",", " ">>)
    ELSE <<>>

Silent(h) ==
    [h |-> h, rc |-> 0, out |-> <<>>, wrc |-> <<>>, nomem |-> FALSE, asked |-> {}]

(* An open is followed while the depth is below Deepest: MaxDepth for a    *)
(* handle whose stack is modelled by its first slots, XO_DEPTH, the size   *)
(* of the array, for a handle whose stack is modelled in full.             *)

Deepest(h) == IF XO_DEPTH - 1 \in DOMAIN h.xo_stack THEN XO_DEPTH ELSE MaxDepth

(* In the actions, \E r \in {v} : ... names the value v. *)

OpenTag(h, name, mem, ub, sinkOK) ==
    xo_printf(h, Spaces(xo_indent(h)) \o Str(<<"<", name, ">">>) \o Ppn(h),
              mem, ub, sinkOK)

CloseTag(h, name, mem, ub, sinkOK) ==
    xo_printf(h, Spaces(xo_indent(h)) \o Lit("</", 2) \o Str(<<name, ">">>) \o Ppn(h),
              mem, ub, sinkOK)

Indent(style) == IF style \in {"XML", "JSON"} THEN 1 ELSE 0

xo_open_container_h(name, mem, ub, sinkOK) ==
    /\ xop.xo_depth < Deepest(xop)
    /\ \E pr \in { CASE xop.xo_style = "XML" -> OpenTag(xop, name, mem, ub, sinkOK)
                     [] xop.xo_style = "JSON" ->
                          xo_printf(SetNotFirst(xop),
                                    PreNl(xop) \o Spaces(xo_indent(xop))
                                    \o Str(<<"\"", name, "\"", ":", " ", "{">>)
                                    \o Ppn(xop), mem, ub, sinkOK)
                     [] OTHER -> Silent(xop) } :
       \E dc \in { xo_depth_change(pr.h, name, 1, Indent(xop.xo_style), {}, mem, ub) } :
           /\ Asked(pr.asked \cup dc.asked, mem, ub, sinkOK)
           /\ Done("open_container", name, dc.h, pr.rc, pr.out, pr.wrc, dc.warns,
                   pr.nomem \/ dc.nomem, Pushed("container", name, xop))

xo_close_container_h(name, mem, ub, sinkOK) ==
    \E dc \in { xo_depth_change(xop, name, -1, -Indent(xop.xo_style), {}, mem, ub) } :
    \E pr \in { CASE xop.xo_style = "XML" ->
                       CloseTag(dc.h, name, mem, ub, sinkOK)
                  [] xop.xo_style = "JSON" ->
                       [xo_printf(dc.h,
                                  Ppn(xop) \o Spaces(xo_indent(dc.h)) \o Str(<<"}">>)
                                  \o (IF xop.xo_depth <= 1 THEN Str(<<"\n">>) ELSE <<>>),
                                  mem, ub, sinkOK)
                           EXCEPT !.h = SetNotFirst(@)]
                  [] OTHER -> Silent(dc.h) } :
        /\ Asked(pr.asked \cup dc.asked, mem, ub, sinkOK)
        /\ Done("close_container", name, pr.h, pr.rc, pr.out, pr.wrc, dc.warns,
                pr.nomem, Popped(xop))

xo_open_list_h(name, mem, ub, sinkOK) ==
    IF xop.xo_style = "JSON"
    THEN /\ xop.xo_depth < Deepest(xop)
         /\ \E pr \in { xo_printf(SetNotFirst(xop),
                                  PreNl(xop) \o Spaces(xo_indent(xop))
                                  \o Str(<<"\"", name, "\"", ":", " ", "[">>)
                                  \o Ppn(xop), mem, ub, sinkOK) } :
            \E dc \in { xo_depth_change(pr.h, name, 1, 1, {"LIST"}, mem, ub) } :
                /\ Asked(pr.asked \cup dc.asked, mem, ub, sinkOK)
                /\ Done("open_list", name, dc.h, pr.rc, pr.out, pr.wrc, dc.warns,
                        pr.nomem \/ dc.nomem, Pushed("list", name, xop))
    ELSE /\ Asked({}, mem, ub, sinkOK)
         /\ Done("open_list", name, xop, 0, <<>>, <<>>, <<>>, FALSE, frames)

xo_close_list_h(name, mem, ub, sinkOK) ==
    IF xop.xo_style = "JSON"
    THEN \E dc \in { xo_depth_change(SetNotFirst(xop), name, -1, -1, {"LIST"},
                                     mem, ub) } :
         \E pr \in { xo_printf(dc.h,
                               (IF NotFirst(xop) THEN Ppn(xop) ELSE <<>>)
                               \o Spaces(xo_indent(dc.h)) \o Str(<<"]">>),
                               mem, ub, sinkOK) } :
             /\ Asked(pr.asked \cup dc.asked, mem, ub, sinkOK)
             /\ Done("close_list", name, SetNotFirst(pr.h), 0, pr.out, pr.wrc, dc.warns,
                     pr.nomem, Popped(xop))
    ELSE /\ Asked({}, mem, ub, sinkOK)
         /\ Done("close_list", name, xop, 0, <<>>, <<>>, <<>>, FALSE, frames)

xo_open_instance_h(name, mem, ub, sinkOK) ==
    /\ xop.xo_depth < Deepest(xop)
    /\ \E pr \in { CASE xop.xo_style = "XML" -> OpenTag(xop, name, mem, ub, sinkOK)
                     [] xop.xo_style = "JSON" ->
                          xo_printf(SetNotFirst(xop),
                                    PreNl(xop) \o Spaces(xo_indent(xop)) \o Str(<<"{">>)
                                    \o Ppn(xop), mem, ub, sinkOK)
                     [] OTHER -> Silent(xop) } :
       \E dc \in { xo_depth_change(pr.h, name, 1, Indent(xop.xo_style), {}, mem, ub) } :
           /\ Asked(pr.asked \cup dc.asked, mem, ub, sinkOK)
           /\ Done("open_instance", name, dc.h, pr.rc, pr.out, pr.wrc, dc.warns,
                   pr.nomem \/ dc.nomem, Pushed("instance", name, xop))

xo_close_instance_h(name, mem, ub, sinkOK) ==
    \E dc \in { xo_depth_change(xop, name, -1, -Indent(xop.xo_style), {}, mem, ub) } :
    \E pr \in { CASE xop.xo_style = "XML" ->
                       CloseTag(dc.h, name, mem, ub, sinkOK)
                  [] xop.xo_style = "JSON" ->
                       [xo_printf(dc.h,
                                  Ppn(xop) \o Spaces(xo_indent(dc.h)) \o Str(<<"}">>),
                                  mem, ub, sinkOK)
                           EXCEPT !.h = SetNotFirst(@)]
                  [] OTHER -> Silent(dc.h) } :
        /\ Asked(pr.asked \cup dc.asked, mem, ub, sinkOK)
        /\ Done("close_instance", name, pr.h, pr.rc, pr.out, pr.wrc, dc.warns,
                pr.nomem, Popped(xop))

-----------------------------------------------------------------------------
(* Configuration *)

xo_set_style(style) ==
    /\ Done("set_style", NULL, [xop EXCEPT !.xo_style = style], 0, <<>>, <<>>, <<>>,
            FALSE, frames)

Set(op, h2) == Done(op, NULL, h2, 0, <<>>, <<>>, <<>>, FALSE, frames)

xo_set_flags(flags) == Set("set_flags", [xop EXCEPT !.xo_flags = @ \cup flags])

xo_clear_flags(flags) == Set("clear_flags", [xop EXCEPT !.xo_flags = @ \ flags])

xo_set_info(infop) == Set("set_info", [xop EXCEPT !.xo_info = infop])

xo_set_formatter(func) == Set("set_formatter", [xop EXCEPT !.xo_formatter = func])

xo_set_writer(write_func, close_func) ==
    Set("set_writer", [xop EXCEPT !.xo_write = write_func, !.xo_close = close_func])

-----------------------------------------------------------------------------
(* The default handle: destruction and lazy initialisation.                *)

(* What LIBXO_OPTIONS asks for: a style or NULL, and flags.                *)

LIBXO_OPTIONS == [style |-> NULL, flags |-> {"WARN"}]

(* sizeof(&xo_default_handle) is the size of a pointer, which depends on   *)
(* the build; the first four fields of the handle are unsigned shorts.     *)

PointerSizes == {4, 8}

(* The memory of a buffer or of the stack array once it was freed.         *)

Freed == [size |-> 0, curp |-> "freed"]

FreedStack == [i \in 0..MaxDepth |-> [xs_flags |-> {}, xs_name |-> NULL]]

(* xo_destroy of the default handle: the stack array and the two buffers   *)
(* are freed, the names the slots point to are not; bzero clears the first *)
(* sizeof(pointer) bytes of the handle and nothing else.                   *)

Destroyed(h, ptr) ==
    [h EXCEPT
        !.xo_style = "TEXT",
        !.xo_flags = {},
        !.xo_indent = IF ptr >= 6 THEN 0 ELSE @,
        !.xo_indent_by = IF ptr >= 8 THEN 0 ELSE @,
        !.xo_data = Freed,
        !.xo_fmt = Freed,
        !.xo_stack = FreedStack,
        !.lost = @ \/ \E i \in 0..MaxDepth : Owned(h.xo_stack[i].xs_name)]

xo_destroy(ptr) ==
    /\ xo_default_inited
    /\ xop' = Destroyed(xop, ptr)
    /\ xo_default_inited' = FALSE
    /\ last' = Result("destroy", NULL, 0, <<>>, <<>>, <<>>, FALSE, 0)
    /\ frames' = <<Frame("root", NULL, Destroyed(xop, ptr))>>

(* xo_default_init, run by xo_default at the start of the first call that  *)
(* finds the default handle not initialised: xo_init_handle on the memory  *)
(* as it is.                                                               *)

Initialised(h, slot) ==
    [h EXCEPT
        !.xo_write = "xo_write_to_file",
        !.xo_data = xo_buf_init,
        !.xo_fmt = xo_buf_init,
        !.xo_indent_by = XO_INDENT_BY,
        !.xo_stack = [i \in 0..MaxDepth |-> slot],
        !.xo_style = IF LIBXO_OPTIONS.style # NULL THEN LIBXO_OPTIONS.style ELSE @,
        !.xo_flags = @ \cup LIBXO_OPTIONS.flags]

xo_default_init(slot) ==
    /\ ~xo_default_inited
    /\ xop' = Initialised(xop, slot)
    /\ xo_default_inited' = TRUE
    /\ last' = Result("default_init", NULL, 0, <<>>, <<>>, <<>>, FALSE, 0)
    /\ frames' = <<Frame("root", NULL, Initialised(xop, slot))>>

-----------------------------------------------------------------------------
(* The format-work buffer while one xo_emit_hv call assembles its format.  *)
(* len is the offset of the insertion point, text the bytes appended so    *)
(* far.  wild: the bytes vsnprintf will later read at xb_bufp are not the  *)
(* bytes appended (the insertion point dangles after a realloc that moved  *)
(* the memory, or an append ran past the end of the buffer).               *)

FmtBuf(h) ==
    [ size |-> h.xo_fmt.size, len |-> 0, text |-> <<>>, wild |-> FALSE,
      nomem |-> FALSE, asked |-> {} ]

(* xo_buf_append: a failed grow drops the append.  After a grow that       *)
(* succeeded the bytes are copied whether they fit or not.                 *)

Copied(xbp, str, len, room, moved) ==
    IF ~room.ok
    THEN [xbp EXCEPT !.nomem = TRUE, !.asked = @ \cup {"memF"}]
    ELSE [xbp EXCEPT
            !.size = room.size,
            !.len = @ + len,
            !.text = @ \o str,
            !.wild = @ \/ (room.size # xbp.size /\ moved) \/ (xbp.len + len > room.size),
            !.asked = @ \cup (IF room.size # xbp.size THEN {"memF", "moved"} ELSE {})]

AppendLen(xbp, str, len, e) ==
    Copied(xbp, str, len, xo_buf_has_room(xbp.size, xbp.len, len, e.memF), e.moved)

xo_buf_append(xbp, str, e) == AppendLen(xbp, str, TextLen(str), e)

(* The state of one xo_emit_hv call: the handle, the format-work buffer,   *)
(* the warnings given and the number of value fields formatted.            *)

App(st, str, e) == [st EXCEPT !.fb = xo_buf_append(@, str, e)]

xo_buf_indent(st, indent, e) ==
    App(st, Spaces(IF indent <= 0 THEN xo_indent(st.h) ELSE indent), e)

Pretty(st) == "PRETTY" \in st.h.xo_flags

AppIf(cond, st, str, e) == IF cond THEN App(st, str, e) ELSE st

xo_line_ensure_open(st, e) ==
    IF "DIV_OPEN" \in st.h.xo_flags \/ st.h.xo_style # "HTML" THEN st
    ELSE AppIf(Pretty(st),
               App([st EXCEPT !.h.xo_flags = @ \cup {"DIV_OPEN"}],
                   Lit("<div class=\"line\">", 18), e),
               Str(<<"\n">>), e)

DivClosed(st) == [st EXCEPT !.h.xo_flags = @ \ {"DIV_OPEN"}]

xo_line_close(st, e) ==
    CASE st.h.xo_style = "HTML" ->
            AppIf(Pretty(st),
                  App(DivClosed(xo_line_ensure_open(st, e)), Lit("</div>", 6), e),
                  Str(<<"\n">>), e)
      [] st.h.xo_style = "TEXT" -> App(st, Str(<<"\n">>), e)
      [] OTHER -> st

(* The names of the open frames, for data-xpath: a slot without a name is  *)
(* skipped, the length of a junk name is undefined.                        *)

RECURSIVE XPath(_, _, _, _)
XPath(st, i, e, name) ==
    IF i > st.h.xo_depth
    THEN App(App(st, Str(<<"/">>), e), name, e)
    ELSE IF st.h.xo_stack[i].xs_name = NULL THEN XPath(st, i + 1, e, name)
    ELSE IF st.h.xo_stack[i].xs_name = JUNK
    THEN XPath([App(st, Str(<<"/">>), e) EXCEPT !.fb.wild = TRUE], i + 1, e, name)
    ELSE XPath(App(App(st, Str(<<"/">>), e), Str(<<st.h.xo_stack[i].xs_name>>), e),
               i + 1, e, name)

DivIndent(st, e) ==
    IF Pretty(st) THEN xo_buf_indent(st, st.h.xo_indent_by, e) ELSE st

DivTag(st, name, e) ==
    IF name # NULL THEN App(App(st, Lit("\" data-tag=\"", 12), e), name, e) ELSE st

DivXPath(st, name, e) ==
    IF name # NULL /\ "XPATH" \in st.h.xo_flags
    THEN XPath(App(st, Lit("\" data-xpath=\"", 14), e), 0, e, name)
    ELSE st

DivClass(st, class, e) == App(App(st, Lit("<div class=\"", 12), e), class, e)

DivValue(st, value, e) ==
    App(App(App(st, Lit("\">", 2), e), value, e), Lit("</div>", 6), e)

xo_buf_append_div(st, class, name, value, e) ==
    AppIf(Pretty(st),
          DivValue(DivXPath(DivTag(DivClass(DivIndent(xo_line_ensure_open(st, e), e),
                                            class, e),
                                   name, e),
                            name, e),
                   value, e),
          Str(<<"\n">>), e)

(* xo_format_text, xo_format_label, xo_format_decoration and               *)
(* xo_format_padding differ in the class of the div only.                  *)

xo_format_text(st, class, str, e) ==
    CASE st.h.xo_style = "TEXT" -> App(st, str, e)
      [] st.h.xo_style = "HTML" -> xo_buf_append_div(st, class, NULL, str, e)
      [] OTHER -> st

(* What vsnprintf makes of a format: "%" and a conversion character take   *)
(* the next argument, whose text stands for its conversion; "%%" is one    *)
(* "%".  A conversion without an argument, or an unknown one, is           *)
(* undefined.                                                              *)

RECURSIVE Subst(_, _)
Subst(fmt, args) ==
    IF fmt = <<>> THEN [text |-> <<>>, wild |-> FALSE]
    ELSE IF Head(fmt).c # "%"
    THEN LET r == Subst(Tail(fmt), args)
         IN  [r EXCEPT !.text = <<Head(fmt)>> \o @]
    ELSE IF Len(fmt) = 1 THEN [text |-> <<>>, wild |-> TRUE]
    ELSE LET conv == fmt[2]
             rest == IF conv.n > 1 THEN <<[conv EXCEPT !.n = @ - 1]>> \o Tail(Tail(fmt))
                     ELSE Tail(Tail(fmt))
         IN  IF conv.c = "%"
             THEN LET r == Subst(rest, args) IN [r EXCEPT !.text = Str(<<"%">>) \o @]
             ELSE IF conv.c \in {"s", "d"} /\ args # <<>>
             THEN LET r == Subst(rest, Tail(args)) IN [r EXCEPT !.text = Head(args) \o @]
             ELSE [text |-> <<>>, wild |-> TRUE]

HasConv(fmt) == \E i \in 1..Len(fmt) : fmt[i].c = "%"

(* xo_format_title: `left` is measured before the title div is opened.    *)

TitleOpen(st, e) ==
    IF st.h.xo_style = "HTML"
    THEN App(DivIndent(xo_line_ensure_open(st, e), e), Lit("<div class=\"title\">", 19), e)
    ELSE st

TitleClose(st, pretty, e) ==
    IF st.h.xo_style = "HTML"
    THEN AppIf(pretty, App(st, Lit("</div>", 6), e), Str(<<"\n">>), e)
    ELSE st

TitleRoom(s1, rc, left, e) ==
    IF rc > left THEN xo_buf_has_room(s1.fb.size, s1.fb.len, rc, e.memF)
    ELSE [ok |-> TRUE, size |-> s1.fb.size, asked |-> {}]

TitlePrinted(s1, sub, rc, left, room, pretty, e) ==
    IF ~room.ok
    THEN [s1 EXCEPT !.fb.nomem = TRUE, !.fb.asked = @ \cup {"memF"}]
    ELSE TitleClose([s1 EXCEPT
                       !.fb.size = room.size,
                       !.fb.len = @ + rc,
                       !.fb.text = @ \o sub.text,
                       !.fb.wild = @ \/ sub.wild \/ rc >= left
                                     \/ (room.size # s1.fb.size /\ e.moved)
                                     \/ s1.fb.len + rc >= room.size,
                       !.fb.asked = @ \cup (IF room.size # s1.fb.size
                                            THEN {"memF", "moved"} ELSE {})],
                    pretty, e)

TitleSubst(s1, sub, rc, left, pretty, e) ==
    TitlePrinted(s1, sub, rc, left, TitleRoom(s1, rc, left, e), pretty, e)

xo_format_title(st, str, fmt, e) ==
    IF st.h.xo_style \notin {"TEXT", "HTML"} THEN st
    ELSE TitleSubst(TitleOpen(st, e), Subst(fmt, <<str>>),
                    TextLen(Subst(fmt, <<str>>).text),
                    st.fb.size - st.fb.len, Pretty(st), e)

xo_format_prep(st, e) ==
    IF NotFirst(st.h)
    THEN AppIf(Pretty(st), App(st, Str(<<",">>), e), Str(<<"\n">>), e)
    ELSE [st EXCEPT !.h = SetNotFirst(@)]

(* xo_format_value: name is NULL or the content of the field, format its   *)
(* print-fmt, encoding its encode-fmt or NULL.                             *)

NameText(name) == IF name = NULL THEN <<>> ELSE name

Counted(st) == [st EXCEPT !.values = @ + 1]

ValueIndent(st, e) == IF Pretty(st) THEN xo_buf_indent(st, -1, e) ELSE st

XmlOpen(st, name, e) == App(App(App(st, Str(<<"<">>), e), name, e), Str(<<">">>), e)

XmlClose(st, name, e) == App(App(App(st, Lit("</", 2), e), name, e), Str(<<">">>), e)

JsonName(st, name, e) ==
    App(App(App(st, Str(<<"\"">>), e), name, e), Lit("\":", 2), e)

(* Quotes only when the Q modifier asks for them. *)

JsonQuoted_OnlyForced(fmt, flags) == "QUOTE" \in flags

JsonQuoted(fmt, flags) ==
    IF "QUOTE" \in flags THEN TRUE
    ELSE IF "NOQUOTE" \in flags THEN FALSE
    ELSE fmt[Len(fmt)].c = "s"

JsonValue(st, fmt, quote, e) ==
    AppIf(quote,
          App(AppIf(quote, AppIf(Pretty(st), st, Str(<<" ">>), e), Str(<<"\"">>), e),
              fmt, e),
          Str(<<"\"">>), e)

ValueOf(st, name, format, fmt, flags, e) ==
    CASE st.h.xo_style = "TEXT" -> App(st, format, e)
      [] st.h.xo_style = "HTML" -> xo_buf_append_div(st, Lit("data", 4), name, format, e)
      [] st.h.xo_style = "XML" ->
            AppIf(Pretty(st),
                  XmlClose(App(XmlOpen(ValueIndent(st, e), NameText(name), e), fmt, e),
                           NameText(name), e),
                  Str(<<"\n">>), e)
      [] st.h.xo_style = "JSON" ->
            JsonValue(JsonName(ValueIndent(xo_format_prep(st, e), e), NameText(name), e),
                      fmt, JsonQuoted(fmt, flags), e)

xo_format_value(st, name, format, encoding, flags, e) ==
    ValueOf(Counted(st), name, format, IF encoding # NULL THEN encoding ELSE format,
            flags, e)

-----------------------------------------------------------------------------
(* The walk of xo_emit_hv over the format string fmt, a text whose special *)
(* characters are runs of length 1.  Position Len(fmt) + 1 holds the       *)
(* terminating NUL.                                                        *)

At(fmt, p) == IF p <= Len(fmt) THEN fmt[p].c ELSE NUL

Part(fmt, from, to) == IF to < from THEN <<>> ELSE SubSeq(fmt, from, to)

RECURSIVE Scan(_, _, _)
Scan(fmt, p, stops) ==
    IF At(fmt, p) \in stops \cup {NUL} THEN p ELSE Scan(fmt, p + 1, stops)

RECURSIVE ScanEscaped(_, _)
ScanEscaped(fmt, p) ==
    IF At(fmt, p) = NUL \/ (At(fmt, p) = "}" /\ At(fmt, p + 1) = "}") THEN p
    ELSE ScanEscaped(fmt, p + 1)

(* The modifiers of a field, from sp on.  The loop of the source ends only *)
(* at ':', '/' or '}': when it meets the NUL it goes on past the string    *)
(* (past).                                                                 *)

RECURSIVE Modifiers(_, _, _, _)
Modifiers(fmt, sp, acc, warn) ==
    LET c == At(fmt, sp)
        unknown == IF warn THEN <<"unknown modifier">> ELSE <<>>
        multiple == IF warn /\ acc.style # NULL THEN <<"multiple styles">> ELSE <<>>
    IN  IF c \in {":", "/", "}"} THEN [acc EXCEPT !.sp = sp]
        ELSE IF c = NUL
        THEN [acc EXCEPT !.sp = sp, !.past = TRUE, !.warns = @ \o unknown]
        ELSE IF c \in {"D", "L", "P", "T", "V"}
        THEN Modifiers(fmt, sp + 1,
                       [acc EXCEPT !.style = c, !.warns = @ \o multiple], warn)
        ELSE IF c \in {"C", "H", "N", "Q", "W"}
        THEN Modifiers(fmt, sp + 1,
                       [acc EXCEPT !.flags = @ \cup
                           {CASE c = "C" -> "COLON" [] c = "H" -> "HIDE"
                              [] c = "N" -> "NOQUOTE" [] c = "Q" -> "QUOTE"
                              [] OTHER -> "WS"}], warn)
        ELSE Modifiers(fmt, sp + 1, [acc EXCEPT !.warns = @ \o unknown], warn)

(* One brace field: '{' modifiers ':' content [ '/' print-fmt [ '/'       *)
(* encode-fmt ]] '}', with cp at the '{'.  The result is the state after   *)
(* the field and the position where the walk goes on.                      *)

FieldRole(st, style, content, format, encoding, flags, e) ==
    CASE style = "T" -> xo_format_title(st, NameText(content), format, e)
      [] style = "L" -> xo_format_text(st, Lit("label", 5), NameText(content), e)
      [] style = "D" -> xo_format_text(st, Lit("decoration", 10), NameText(content), e)
      [] style = "P" -> xo_format_text(st, Lit("padding", 7), NameText(content), e)
      [] OTHER -> xo_format_value(st, content, format, encoding, flags, e)

FieldColon(st, flags, e) ==
    IF "COLON" \in flags
    THEN xo_format_text(st, Lit("decoration", 10), Str(<<":">>), e) ELSE st

FieldWs(st, flags, e) ==
    IF "WS" \in flags THEN xo_format_text(st, Lit("padding", 7), Str(<<" ">>), e) ELSE st

Warned(st, warns) == [st EXCEPT !.warns = @ \o warns]

FieldDone(st, fmt, m, content, format, encoding, ep, e) ==
    IF m.past
    THEN [st |-> [Warned(st, m.warns) EXCEPT !.fb.wild = TRUE], cp |-> Len(fmt) + 1]
    ELSE [st |-> FieldWs(FieldColon(FieldRole(Warned(st, m.warns), m.style, content,
                                              format, encoding, m.flags, e),
                                    m.flags, e),
                         m.flags, e),
          cp |-> IF At(fmt, ep) = "}" THEN ep + 1 ELSE ep]

FieldEncoding(st, fmt, m, content, format, f1, e1, e) ==
    FieldDone(st, fmt, m, content, format,
              IF At(fmt, f1) = "/" /\ e1 # f1 + 1 THEN Part(fmt, f1 + 1, e1 - 1) ELSE NULL,
              e1, e)

FieldFormat(st, fmt, m, content, c1, f1, e) ==
    FieldEncoding(st, fmt, m, content,
                  IF At(fmt, c1) = "/" /\ f1 # c1 + 1 THEN Part(fmt, c1 + 1, f1 - 1)
                  ELSE Str(<<"%", "s">>),
                  f1, IF At(fmt, f1) = "/" THEN Scan(fmt, f1 + 1, {"}"}) ELSE f1, e)

FieldContent(st, fmt, m, c1, e) ==
    FieldFormat(st, fmt, m,
                IF At(fmt, m.sp) = ":" /\ c1 # m.sp + 1 THEN Part(fmt, m.sp + 1, c1 - 1)
                ELSE NULL,
                c1, IF At(fmt, c1) = "/" THEN Scan(fmt, c1 + 1, {"}", "/"}) ELSE c1, e)

FieldModifiers(st, fmt, m, e) ==
    FieldContent(st, fmt, m,
                 IF At(fmt, m.sp) = ":" THEN Scan(fmt, m.sp + 1, {"}", "/"}) ELSE m.sp, e)

(* The formatter hook, when one is set, is handed tlen = ep - cp bytes from *)
(* cp + 1 on, ep being the first '}' (or the NUL) after the '{' at cp.     *)
(* The hooks of the model return NULL: the field is parsed as it stands.   *)

Passed(fmt, cp, ep) ==
    Part(fmt, cp + 1, IF cp + (ep - cp) <= Len(fmt) THEN cp + (ep - cp) ELSE Len(fmt))

Hooked(st, fmt, cp) ==
    IF st.h.xo_formatter # NULL
    THEN [st EXCEPT !.hook = Append(@, Passed(fmt, cp, Scan(fmt, cp + 1, {"}"})))]
    ELSE st

Field(st, fmt, cp, e) ==
    FieldModifiers(Hooked(st, fmt, cp), fmt,
                   Modifiers(fmt, cp + 1,
                             [sp |-> cp + 1, style |-> NULL, flags |-> {},
                              warns |-> <<>>, past |-> FALSE],
                             "WARN" \in st.h.xo_flags),
                   e)

RECURSIVE Walk(_, _, _, _), WalkEscaped(_, _, _, _, _), WalkField(_, _, _),
          WalkText(_, _, _, _, _)
Walk(st, fmt, cp, e) ==
    IF At(fmt, cp) = NUL THEN st
    ELSE IF At(fmt, cp) = "\n" THEN Walk(xo_line_close(st, e), fmt, cp + 1, e)
    ELSE IF At(fmt, cp) = "{" /\ At(fmt, cp + 1) = "{"
    THEN WalkEscaped(st, fmt, cp, ScanEscaped(fmt, cp + 2), e)
    ELSE IF At(fmt, cp) = "{" THEN WalkField(Field(st, fmt, cp, e), fmt, e)
    ELSE WalkText(st, fmt, cp, Scan(fmt, cp, {"{", "\n"}), e)

(* Escaped braces: after the text the walk skips "}}" and, unless it is at *)
(* the NUL, one byte more.                                                 *)

AfterEscaped(fmt, sp) == IF At(fmt, sp) # NUL THEN sp + 1 ELSE sp

WalkEscaped(st, fmt, cp, sp, e) ==
    Walk(xo_format_text(st, Lit("text", 4), Part(fmt, cp + 2, sp - 1), e), fmt,
         AfterEscaped(fmt, IF At(fmt, sp) = "}" /\ At(fmt, sp + 1) = "}" THEN sp + 2
                           ELSE sp),
         e)

WalkField(f, fmt, e) == Walk(f.st, fmt, f.cp, e)

WalkText(st, fmt, cp, sp, e) ==
    Walk(xo_format_text(st, Lit("text", 4), Part(fmt, cp, sp - 1), e), fmt, sp, e)

(* The end of xo_emit_hv when the data buffer cannot grow: -1, nothing is  *)
(* written.                                                                *)

EmitNoRoom(h, data, e) ==
    [h |-> h, rc |-> -1, out |-> <<>>, wrc |-> <<>>, nomem |-> TRUE, asked |-> {"memD"}]

(* The end of xo_emit_hv otherwise: one call of xo_write, whose result is  *)
(* dropped; the value returned is the one of vsnprintf.                    *)

EmitWrite(h, rc, data, e, asked) ==
    [ h |-> h, rc |-> rc, out |-> <<data>>,
      wrc |-> <<xo_write_to_file(data, e.sinkOK)>>,
      nomem |-> FALSE, asked |-> asked \cup {"sink"} ]

(* xo_emit_hv.  The NUL is appended like any byte; without it the format   *)
(* runs on into what the buffer held before.  The substitution is cut to   *)
(* xb_size - 1 bytes; when its length exceeds xb_size the data buffer      *)
(* grows by one chunk and the substitution is made again, with a va_list   *)
(* that was consumed (ub when the format takes arguments).                 *)

Retried(fb, full, size, e) ==
    IF HasConv(fb.text) /\ e.ub THEN Garbage
    ELSE IF TextLen(full) < size THEN full ELSE Trunc(full, size - 1)

DataGrown(h1, room, e) ==
    [h1 EXCEPT !.xo_data = [size |-> room.size,
                            curp |-> IF e.moved THEN "dangling" ELSE @.curp]]

EmitRetry(h1, fb, full, again, room, e) ==
    IF ~room.ok THEN EmitNoRoom(h1, full, e)
    ELSE EmitWrite(DataGrown(h1, room, e),
                   IF again = Garbage THEN TextLen(Garbage) ELSE TextLen(full),
                   again, e,
                   {"memD", "moved"} \cup (IF HasConv(fb.text) THEN {"ub"} ELSE {}))

EmitGrow(h1, fb, full, room, e) ==
    EmitRetry(h1, fb, full, Retried(fb, full, room.size, e), room, e)

EmitEnd(h1, fb, full, rc, size, e) ==
    IF rc > size
    THEN EmitGrow(h1, fb, full, xo_buf_has_room(size, 0, rc, e.memD), e)
    ELSE EmitWrite(h1, rc, IF rc < size THEN full ELSE Trunc(full, size - 1), e, {})

EmitResult(end, s1, fb) ==
    [ end EXCEPT !.nomem = @ \/ fb.nomem, !.asked = @ \cup fb.asked ]
        @@ [warns |-> s1.warns, values |-> s1.values, hook |-> s1.hook]

EmitFull(s1, fb, full, e) ==
    EmitResult(EmitEnd([s1.h EXCEPT !.xo_fmt = [size |-> fb.size, curp |-> "bufp"]],
                       fb, full, TextLen(full), s1.h.xo_data.size, e),
               s1, fb)

EmitFinish(s1, fb, sub, e) ==
    EmitFull(s1, fb,
             IF fb.wild \/ fb.len # s1.fb.len + 1 \/ sub.wild THEN Garbage ELSE sub.text,
             e)

EmitSubst(s1, fb, args, e) ==
    EmitFinish(s1, fb, Subst(Part(fb.text, 1, Len(fb.text) - 1), args), e)

EmitNul(s1, args, e) == EmitSubst(s1, xo_buf_append(s1.fb, Lit(NUL, 1), e), args, e)

xo_emit_hv(h, fmt, args, e) ==
    EmitNul(Walk([h |-> h, fb |-> FmtBuf(h), warns |-> <<>>, values |-> 0,
                  hook |-> <<>>], fmt, 1, e),
            args, e)

(* The environment of an emit call: whether the format-work buffer and the *)
(* data buffer can grow (memF, memD), whether a realloc moves the memory   *)
(* (moved), how an undefined operation comes out (ub), whether the sink    *)
(* accepts the write (sinkOK).  At most one of them departs from the       *)
(* default, and only in a call that asks.                                  *)

EnvOK == [memF |-> TRUE, memD |-> TRUE, moved |-> FALSE, ub |-> FALSE, sinkOK |-> TRUE]

EmitEnvs ==
    { EnvOK, [EnvOK EXCEPT !.memF = FALSE], [EnvOK EXCEPT !.memD = FALSE],
      [EnvOK EXCEPT !.moved = TRUE], [EnvOK EXCEPT !.ub = TRUE],
      [EnvOK EXCEPT !.sinkOK = FALSE] }

AskedEmit(asked, e) ==
    /\ ~e.memF => "memF" \in asked
    /\ ~e.memD => "memD" \in asked
    /\ e.moved => "moved" \in asked
    /\ e.ub => "ub" \in asked
    /\ ~e.sinkOK => "sink" \in asked

(* An emit call of the model: a format string and its arguments, under a   *)
(* name.                                                                   *)

Call(id, fmt, args) == [id |-> id, fmt |-> fmt, args |-> args]

xo_emit(call, envs) ==
    \E r0 \in { xo_emit_hv(xop, call.fmt, call.args, EnvOK) } :
    \E e \in { env \in envs : AskedEmit(r0.asked, env) } :
    \E r \in { IF e = EnvOK THEN r0 ELSE xo_emit_hv(xop, call.fmt, call.args, e) } :
        /\ AskedEmit(r.asked, e)
        /\ Step(r.h, [Result("emit", call.id, r.rc, r.out, r.wrc, r.warns, r.nomem,
                             r.values) EXCEPT !.hook = r.hook],
                IF r.values > 0 THEN Child ELSE frames)

-----------------------------------------------------------------------------
(* Specifications *)

InitOf(styles, flagsets, indents, slots) ==
    /\ xop \in { xo_init_handle(s, f, i, slot) :
                    s \in styles, f \in flagsets, i \in indents, slot \in slots }
    /\ last = Result("init", NULL, 0, <<>>, <<>>, <<>>, FALSE, 0)
    /\ frames = <<Frame("root", NULL, xop)>>
    /\ xo_default_inited = TRUE

Opens == {"open_container", "open_list", "open_instance"}
Closes == {"close_container", "close_list", "close_instance"}
Markup == {"XML", "JSON"}

KindOf(op) ==
    CASE op \in {"open_container", "close_container"} -> "container"
      [] op \in {"open_list", "close_list"} -> "list"
      [] OTHER -> "instance"

(* The default handle, with the style and the flags of LIBXO_OPTIONS, and  *)
(* structural calls in any order.                                          *)

InitStruct == InitOf(Styles, {{}, {"WARN"}}, {0}, UninitFrames)

NextStruct ==
    \/ \E name \in Names, mem \in MemEnv, ub \in UbEnv, sinkOK \in SinkEnv :
           xo_open_container_h(name, mem, ub, sinkOK)
    \/ \E name \in Names, mem \in MemEnv, ub \in UbEnv, sinkOK \in SinkEnv :
           xo_close_container_h(name, mem, ub, sinkOK)
    \/ \E name \in Names, mem \in MemEnv, ub \in UbEnv, sinkOK \in SinkEnv :
           xo_open_list_h(name, mem, ub, sinkOK)
    \/ \E name \in Names, mem \in MemEnv, ub \in UbEnv, sinkOK \in SinkEnv :
           xo_close_list_h(name, mem, ub, sinkOK)
    \/ \E name \in Names, mem \in MemEnv, ub \in UbEnv, sinkOK \in SinkEnv :
           xo_open_instance_h(name, mem, ub, sinkOK)
    \/ \E name \in Names, mem \in MemEnv, ub \in UbEnv, sinkOK \in SinkEnv :
           xo_close_instance_h(name, mem, ub, sinkOK)

SpecStruct == InitStruct /\ [][NextStruct]_vars

(* A handle from xo_create(XML or JSON, Warn with or without Pretty), and  *)
(* structural calls where every close is of the kind of the top frame.     *)

InitCreated == InitOf(Markup, {{"WARN"}, {"PRETTY", "WARN"}}, UninitIndent, UninitFrames)

SameKind(kind) == Len(frames) > 1 /\ Top.kind = kind

NextCreated ==
    \/ \E name \in Names, mem \in MemEnv, ub \in UbEnv, sinkOK \in SinkEnv :
           xo_open_container_h(name, mem, ub, sinkOK)
    \/ \E name \in Names, mem \in MemEnv, ub \in UbEnv, sinkOK \in SinkEnv :
           SameKind("container") /\ xo_close_container_h(name, mem, ub, sinkOK)
    \/ \E name \in Names, mem \in MemEnv, ub \in UbEnv, sinkOK \in SinkEnv :
           xo_open_list_h(name, mem, ub, sinkOK)
    \/ \E name \in Names, mem \in MemEnv, ub \in UbEnv, sinkOK \in SinkEnv :
           SameKind("list") /\ xo_close_list_h(name, mem, ub, sinkOK)
    \/ \E name \in Names, mem \in MemEnv, ub \in UbEnv, sinkOK \in SinkEnv :
           xo_open_instance_h(name, mem, ub, sinkOK)
    \/ \E name \in Names, mem \in MemEnv, ub \in UbEnv, sinkOK \in SinkEnv :
           SameKind("instance") /\ xo_close_instance_h(name, mem, ub, sinkOK)

SpecCreated == InitCreated /\ [][NextCreated]_vars

(* The emit calls of the model *)

CallNumber == Call("number", Str(<<"{", ":", "a", "/", "%", "d", "}">>), <<Str(<<"7">>)>>)

CallString == Call("string", Str(<<"{", ":", "b", "}">>), <<Str(<<"v">>)>>)

CallPair ==
    Call("pair", Str(<<"{", ":", "a", "/", "%", "d", "}", "{", ":", "b", "}">>),
         <<Str(<<"7">>), Str(<<"v">>)>>)

CallLine ==
    Call("line", Str(<<"x", "{", ":", "a", "/", "%", "d", "}", "\n">>), <<Str(<<"7">>)>>)

CallLongArg == Call("longarg", Str(<<"{", ":", "b", "}">>), <<Lit("y", XO_BUFSIZ)>>)

CallLongFmt ==
    Call("longfmt",
         Str(<<"{", ":", "a", "/", "%", "s">>) \o Lit("x", XO_BUFSIZ) \o Str(<<"}">>),
         <<Str(<<"v">>)>>)

Calls == {CallNumber, CallString, CallPair, CallLine, CallLongArg, CallLongFmt}

(* The default handle in JSON, with balanced structural calls (a close     *)
(* names the top frame and is of its kind) and emit calls of value fields. *)

InitJson == InitOf({"JSON"}, {{}, {"PRETTY"}}, {0}, UninitFrames)

NextJson ==
    \/ \E call \in {CallNumber, CallPair} :
            xo_emit(call, {EnvOK, [EnvOK EXCEPT !.sinkOK = FALSE]})
    \/ \E name \in Names, sinkOK \in SinkEnv :
           xo_open_container_h(name, TRUE, FALSE, sinkOK)
    \/ \E name \in Names, sinkOK \in SinkEnv :
           Matches("container", name) /\ xo_close_container_h(name, TRUE, FALSE, sinkOK)
    \/ \E name \in Names, sinkOK \in SinkEnv :
           xo_open_list_h(name, TRUE, FALSE, sinkOK)
    \/ \E name \in Names, sinkOK \in SinkEnv :
           Matches("list", name) /\ xo_close_list_h(name, TRUE, FALSE, sinkOK)
    \/ \E name \in Names, sinkOK \in SinkEnv :
           xo_open_instance_h(name, TRUE, FALSE, sinkOK)
    \/ \E name \in Names, sinkOK \in SinkEnv :
           Matches("instance", name) /\ xo_close_instance_h(name, TRUE, FALSE, sinkOK)

SpecJson == InitJson /\ [][NextJson]_vars

(* The default handle in any style, with emit calls under every            *)
(* environment, inside and outside a container.                            *)

InitEmit == InitOf(Styles, {{}, {"PRETTY"}}, {0}, UninitFrames)

NextEmit ==
    \/ \E call \in Calls : xo_emit(call, EmitEnvs)
    \/ \E name \in Names : xo_open_container_h(name, TRUE, FALSE, TRUE)
    \/ \E name \in Names :
            Matches("container", name) /\ xo_close_container_h(name, TRUE, FALSE, TRUE)

SpecEmit == InitEmit /\ [][NextEmit]_vars

(* The default handle as first used (Text, no flags), with xo_set_style    *)
(* between structural calls in any order and emit calls.  No name is       *)
(* looked at without Warn and Xpath: one name is enough.                   *)

InitStyle == InitOf({"TEXT"}, {{}}, {0}, UninitFrames)

NextStyle ==
    \/ \E style \in Styles : xo_set_style(style)
    \/ xo_emit(CallNumber, {EnvOK})
    \/ xo_open_container_h("a", TRUE, FALSE, TRUE)
    \/ xo_close_container_h("a", TRUE, FALSE, TRUE)
    \/ xo_open_list_h("a", TRUE, FALSE, TRUE)
    \/ xo_close_list_h("a", TRUE, FALSE, TRUE)
    \/ xo_open_instance_h("a", TRUE, FALSE, TRUE)
    \/ xo_close_instance_h("a", TRUE, FALSE, TRUE)

SpecStyle == InitStyle /\ [][NextStyle]_vars

(* The default handle under LIBXO_OPTIONS, with containers, the setters of *)
(* the info table, the formatter and the writer, and xo_destroy; the call  *)
(* after a destroy begins with xo_default_init.                            *)

InitDestroy == InitOf({"TEXT"}, {LIBXO_OPTIONS.flags}, {0}, UninitFrames)

NextDestroy ==
    \/ \E mem \in MemEnv : xo_open_container_h("a", mem, FALSE, TRUE)
    \/ \E ub \in UbEnv : xo_close_container_h("a", TRUE, ub, TRUE)
    \/ xo_set_style("XML")
    \/ xo_set_info("info")
    \/ xo_set_formatter("formatter")
    \/ xo_set_writer("write", "close")
    \/ \E ptr \in PointerSizes : xo_destroy(ptr)
    \/ \E slot \in UninitFrames : xo_default_init(slot)

SpecDestroy == InitDestroy /\ [][NextDestroy]_vars

(* Emit calls of one value field: '{' mods ':' name '/' print '/' encode   *)
(* '}', an empty segment left out with its '/'.                            *)

FieldFmt(mods, name, print, encode) ==
    Str(<<"{">>) \o Str(mods) \o Str(<<":", name>>)
    \o (IF print # <<>> THEN Str(<<"/">>) \o print ELSE <<>>)
    \o (IF encode # <<>> THEN Str(<<"/">>) \o encode ELSE <<>>)
    \o Str(<<"}">>)

FieldCall(id, mods, name, print, encode, arg) ==
    [ id |-> id, fmt |-> FieldFmt(mods, name, print, encode), args |-> <<Str(<<arg>>)>>,
      mods |-> mods, print |-> print, encode |-> encode, arg |-> Str(<<arg>>) ]

PctD == Str(<<"%", "d">>)
PctS == Str(<<"%", "s">>)

FieldCalls ==
    { FieldCall("d", <<>>, "a", PctD, <<>>, "7"),
      FieldCall("s", <<>>, "b", PctS, <<>>, "v"),
      FieldCall("d/s", <<>>, "a", PctD, PctS, "7"),
      FieldCall("s/d", <<>>, "b", PctS, PctD, "7"),
      FieldCall("Qd", <<"Q">>, "a", PctD, <<>>, "7"),
      FieldCall("Ns", <<"N">>, "b", PctS, <<>>, "v"),
      FieldCall("Hd", <<"H">>, "a", PctD, <<>>, "7") }

(* Text around an escaped-braces span: "x{{y}}z".                          *)

CallEscaped ==
    Call("escaped", Str(<<"x", "{", "{", "y", "}", "}", "z">>), <<>>)

(* The default handle in any style, with emit calls of single fields and   *)
(* of escaped braces, with or without a formatter hook, inside and outside *)
(* a container.                                                            *)

InitField == InitOf(Styles, {{}}, {0}, UninitFrames)

NextField ==
    \/ \E call \in FieldCalls : xo_emit(call, {EnvOK})
    \/ xo_emit(CallEscaped, {EnvOK})
    \/ \E func \in {NULL, "formatter"} : xo_set_formatter(func)
    \/ xo_open_container_h("a", TRUE, FALSE, TRUE)
    \/ Matches("container", "a") /\ xo_close_container_h("a", TRUE, FALSE, TRUE)

SpecField == InitField /\ [][NextField]_vars

(* Format strings of text, of fields of every role and of newlines, for the *)
(* line divs of HTML: "x", "\n", "\n\n", "x{:a/%d}\n", "{:a/%d}", "{T:t}",  *)
(* "{L:l}", "{P:p}", "{D:d}" and a newline after escaped braces, "{{y}}\n". *)

RoleCall(id, role, content) ==
    Call(id, Str(<<"{", role, ":", content, "}">>), <<>>)

CallEscapedLine ==
    Call("escaped line", Str(<<"{", "{", "y", "}", "}", "\n">>), <<>>)

HtmlCalls ==
    { Call("text", Str(<<"x">>), <<>>),
      Call("newline", Str(<<"\n">>), <<>>),
      Call("newlines", Str(<<"\n", "\n">>), <<>>),
      CallLine, CallNumber,
      RoleCall("title", "T", "t"), RoleCall("label", "L", "l"),
      RoleCall("padding", "P", "p"), RoleCall("decoration", "D", "d"),
      CallEscapedLine }

(* The default handle in HTML with emit calls only, a logical line         *)
(* spanning several calls.                                                 *)

InitHtml == InitOf({"HTML"}, {{}, {"PRETTY"}}, {0}, UninitFrames)

NextHtml == \E call \in HtmlCalls : xo_emit(call, {EnvOK})

SpecHtml == InitHtml /\ [][NextHtml]_vars

(* The default handle in HTML with Xpath set from the start: containers and *)
(* instances opened and closed under any name, and emit calls of a value   *)
(* field.                                                                  *)

InitXpath == InitOf({"HTML"}, {{"XPATH"}}, {0}, UninitFrames)

NextXpath ==
    \/ \E call \in {CallNumber, CallString} : xo_emit(call, {EnvOK})
    \/ \E name \in Names : xo_open_container_h(name, TRUE, FALSE, TRUE)
    \/ \E name \in Names : xo_close_container_h(name, TRUE, FALSE, TRUE)
    \/ \E name \in Names : xo_open_instance_h(name, TRUE, FALSE, TRUE)
    \/ \E name \in Names : xo_close_instance_h(name, TRUE, FALSE, TRUE)

SpecXpath == InitXpath /\ [][NextXpath]_vars

(* Format strings that end inside a braces field: "{LW", "{", "x{L",       *)
(* "{:a" and "{:a/%d".                                                     *)

UnterminatedCalls ==
    { Call("modifiers", Str(<<"{", "L", "W">>), <<>>),
      Call("brace", Str(<<"{">>), <<>>),
      Call("text modifiers", Str(<<"x", "{", "L">>), <<>>),
      Call("content", Str(<<"{", ":", "a">>), <<Str(<<"v">>)>>),
      Call("format", Str(<<"{", ":", "a", "/", "%", "d">>), <<Str(<<"7">>)>>) }

(* The default handle in any style, with and without Warn, with emit calls *)
(* of complete and of unterminated fields, inside and outside a container. *)

InitUnterminated == InitOf(Styles, {{}, {"WARN"}}, {0}, UninitFrames)

NextUnterminated ==
    \/ \E call \in UnterminatedCalls : xo_emit(call, {EnvOK})
    \/ \E call \in {CallNumber, CallLine} : xo_emit(call, {EnvOK})
    \/ xo_open_container_h("a", TRUE, FALSE, TRUE)
    \/ Matches("container", "a") /\ xo_close_container_h("a", TRUE, FALSE, TRUE)

SpecUnterminated == InitUnterminated /\ [][NextUnterminated]_vars

(* The format-work buffer under its own operations, as xo_emit_hv drives   *)
(* them within one call: last.xb is the buffer, last.used the offset of    *)
(* the insertion point before the operation, last.n the length asked for   *)
(* and last.ok what xo_buf_has_room returned.  The reset is the            *)
(* xb_curp = xb_bufp at the end of xo_emit_hv; at most MaxAppends appends  *)
(* are followed between two resets.                                        *)

BufLens == {XO_BUFSIZ \div 2, XO_BUFSIZ - 1, XO_BUFSIZ, 2 * XO_BUFSIZ + 1}

BufEnvs == {EnvOK, [EnvOK EXCEPT !.memF = FALSE], [EnvOK EXCEPT !.moved = TRUE]}

BufOps == {"has_room", "append", "indent", "reset"}

BufResult(op, n, ok, xb) ==
    [op |-> op, name |-> NULL, n |-> n, used |-> last.xb.len, ok |-> ok, xb |-> xb]

BufStep(op, n, ok, xb) ==
    /\ xb.size <= Cap
    /\ Len(xb.text) <= MaxAppends
    /\ last' = BufResult(op, n, ok, xb)
    /\ xop' = [xop EXCEPT !.xo_fmt.size = xb.size]
    /\ UNCHANGED <<frames, xo_default_inited>>

Room(xb, n, e) == xo_buf_has_room(xb.size, xb.len, n, e.memF)

Grown(xb, room, e) ==
    [xb EXCEPT !.size = room.size,
               !.wild = @ \/ (room.size # xb.size /\ e.moved),
               !.nomem = @ \/ ~room.ok]

BufHasRoom(n, e) ==
    BufStep("has_room", n, Room(last.xb, n, e).ok, Grown(last.xb, Room(last.xb, n, e), e))

BufAppend(n, e) ==
    BufStep("append", n, Room(last.xb, n, e).ok, AppendLen(last.xb, Lit("x", n), n, e))

BufIndent(indent, e) ==
    \E n \in { IF indent <= 0 THEN xo_indent(xop) ELSE indent } :
        BufStep("indent", n, Room(last.xb, n, e).ok,
                xo_buf_indent([h |-> xop, fb |-> last.xb], indent, e).fb)

BufReset ==
    BufStep("reset", 0, TRUE,
            [last.xb EXCEPT !.len = 0, !.text = <<>>, !.wild = FALSE])

InitBuf ==
    /\ xop \in { xo_init_handle("HTML", {"PRETTY"}, i, slot) :
                    i \in {0, 1}, slot \in UninitFrames }
    /\ last = [op |-> "init", name |-> NULL, n |-> 0, used |-> 0, ok |-> TRUE,
               xb |-> FmtBuf(xop)]
    /\ frames = <<Frame("root", NULL, xop)>>
    /\ xo_default_inited = TRUE

NextBuf ==
    \/ \E n \in BufLens, e \in BufEnvs : BufHasRoom(n, e)
    \/ \E n \in BufLens, e \in BufEnvs : BufAppend(n, e)
    \/ \E indent \in {-1, XO_INDENT_BY}, e \in BufEnvs : BufIndent(indent, e)
    \/ BufReset

SpecBuf == InitBuf /\ [][NextBuf]_vars

(* xo_create: the memory of the new handle is not initialised; the style   *)
(* and the flags are stored and xo_init_handle does the rest, the options  *)
(* of the environment included.  environ is what the letters of           *)
(* LIBXO_OPTIONS ask for: the last style letter or NULL, the flags of its  *)
(* flag letters and the number after 'i', -1 without one; a variable that  *)
(* is not set asks for nothing.  The model follows the handle created      *)
(* last.                                                                   *)

Environs ==
    { [style |-> NULL, flags |-> {}, indent_by |-> -1],
      [style |-> LIBXO_OPTIONS.style, flags |-> LIBXO_OPTIONS.flags, indent_by |-> -1],
      [style |-> "JSON", flags |-> {"PRETTY"}, indent_by |-> -1],
      [style |-> "XML", flags |-> {"XPATH", "INFO"}, indent_by |-> 4] }

Configured(h, environ) ==
    [h EXCEPT
        !.xo_style = IF environ.style # NULL THEN environ.style ELSE @,
        !.xo_flags = @ \cup environ.flags,
        !.xo_indent_by = IF environ.indent_by >= 0 THEN environ.indent_by ELSE @]

Created(op, style, flags, environ, h) ==
    [Result(op, NULL, 0, <<>>, <<>>, <<>>, h = NULL, 0)
        EXCEPT !.hook = <<[style |-> style, flags |-> flags, environ |-> environ]>>]

(* What the fields xo_create and xo_init_handle never set hold in the      *)
(* memory xo_realloc(NULL, ...) returned: zeroes, or junk in xo_indent, in *)
(* the stack slots, in xo_depth or in the pointers xo_formatter, xo_close  *)
(* and xo_info.                                                            *)

Zeroed == [indent |-> 0, slot |-> [xs_flags |-> {}, xs_name |-> NULL], depth |-> 0,
           ptr |-> NULL]

UninitHandle ==
    { Zeroed,
      [Zeroed EXCEPT !.indent = USHRT_RANGE - 1],
      [Zeroed EXCEPT !.slot = [xs_flags |-> {"NOT_FIRST", "LIST", "INSTANCE"},
                               xs_name |-> JUNK]],
      [Zeroed EXCEPT !.depth = 1],
      [Zeroed EXCEPT !.ptr = JUNK] }

NewHandle(style, flags, environ, uninit) ==
    [Configured(xo_init_handle(style, flags, uninit.indent, uninit.slot), environ)
        EXCEPT !.xo_depth = uninit.depth,
               !.xo_formatter = uninit.ptr,
               !.xo_close = uninit.ptr,
               !.xo_info = uninit.ptr]

xo_create(style, flags, environ, uninit, mem) ==
    /\ xo_default_inited
    /\ last' = Created("create", style, flags, environ, IF mem THEN "xop" ELSE NULL)
    /\ xop' = IF mem THEN NewHandle(style, flags, environ, uninit) ELSE xop
    /\ frames' = IF mem
                 THEN <<Frame("root", NULL, NewHandle(style, flags, environ, uninit))>>
                 ELSE frames
    /\ UNCHANGED xo_default_inited

InitCreate == InitOf({"TEXT"}, {{}}, {0}, UninitFrames)

NextCreate ==
    \/ \E style \in {"TEXT", "JSON"}, flags \in {{}, {"WARN"}}, environ \in Environs,
          uninit \in UninitHandle, mem \in BOOLEAN :
            xo_create(style, flags, environ, uninit, mem)
    \/ xo_open_container_h("a", TRUE, FALSE, TRUE)
    \/ xo_close_container_h("a", TRUE, FALSE, TRUE)

SpecCreate == InitCreate /\ [][NextCreate]_vars

(* The default handle in Text with no flags and the whole stack array of   *)
(* XO_DEPTH slots: containers opened and closed, one after the other.      *)

InitDeep ==
    /\ xop \in { [xo_init_handle("TEXT", {}, 0, slot)
                    EXCEPT !.xo_stack = [i \in 0..(XO_DEPTH - 1) |-> slot]] :
                 slot \in UninitFrames }
    /\ last = Result("init", NULL, 0, <<>>, <<>>, <<>>, FALSE, 0)
    /\ frames = <<Frame("root", NULL, xop)>>
    /\ xo_default_inited = TRUE

NextDeep ==
    \/ xo_open_container_h("a", TRUE, FALSE, TRUE)
    \/ xo_close_container_h("a", TRUE, FALSE, TRUE)

SpecDeep == InitDeep /\ [][NextDeep]_vars

(* The default handle in HTML, Xpath and Warn set and cleared at any       *)
(* point, containers and instances opened and closed under any name, and   *)
(* emit calls of a value field.                                            *)

InitFlags == InitOf({"HTML"}, {{}}, {0}, UninitFrames)

NextFlags ==
    \/ \E flags \in {{"XPATH"}, {"WARN"}} : xo_set_flags(flags)
    \/ \E flags \in {{"XPATH"}, {"WARN"}} : xo_clear_flags(flags)
    \/ \E name \in Names : xo_open_container_h(name, TRUE, FALSE, TRUE)
    \/ \E name \in Names : xo_close_container_h(name, TRUE, FALSE, TRUE)
    \/ \E name \in Names : xo_open_instance_h(name, TRUE, FALSE, TRUE)
    \/ \E name \in Names : xo_close_instance_h(name, TRUE, FALSE, TRUE)
    \/ xo_emit(CallNumber, {EnvOK})

SpecFlags == InitFlags /\ [][NextFlags]_vars

-----------------------------------------------------------------------------
(* Claims *)

(* C1: in JSON style a separator comma is written before a child (a        *)
(* container, list or instance opening, or a value field) if and only if   *)
(* the child is not the first child of its enclosing frame, and no comma   *)
(* is written by a close.  A call writes one comma per child that is not   *)
(* the first one: an open writes one exactly when the enclosing frame had  *)
(* a child before, an emit call of n value fields writes n - 1 and one     *)
(* more when the frame had a child before.                                 *)

C1_Commas ==
    (xop.xo_style = "JSON" /\ last'.out # <<>>) =>
        Count(last'.out[1], ",") =
            CASE last'.op \in Opens -> IF Top.kids THEN 1 ELSE 0
              [] last'.op = "emit" /\ last'.values > 0 ->
                    last'.values - 1 + (IF Top.kids THEN 1 ELSE 0)
              [] OTHER -> 0

C1_CommaIffNotFirst == [][C1_Commas]_vars

(* C2: with matching names and a fixed style, under XML every              *)
(* open_container and open_instance hands the sink the opening tag <N>     *)
(* and the close of the top frame hands it the closing tag </N> of the     *)
(* same N; under JSON every '{' of an open is closed by the '}' of the     *)
(* matching close and every '[' of open_list by the ']' of close_list.     *)
(* Each such call hands the sink one text that holds its delimiter.        *)

Delimiter(op, name, style) ==
    CASE style = "XML" /\ op \in {"open_container", "open_instance"} ->
            Str(<<"<", name, ">">>)
      [] style = "XML" /\ op \in {"close_container", "close_instance"} ->
            Lit("</", 2) \o Str(<<name, ">">>)
      [] style = "JSON" /\ op \in {"open_container", "open_instance"} -> Str(<<"{">>)
      [] style = "JSON" /\ op \in {"close_container", "close_instance"} -> Str(<<"}">>)
      [] style = "JSON" /\ op = "open_list" -> Str(<<"[">>)
      [] style = "JSON" /\ op = "close_list" -> Str(<<"]">>)
      [] OTHER -> <<>>

Delimited(op, name, style, out) ==
    Delimiter(op, name, style) # <<>> =>
        Len(out) = 1 /\ Contains(out[1], Delimiter(op, name, style))

C2_Step ==
    /\ last'.op \in Opens => Delimited(last'.op, last'.name, xop.xo_style, last'.out)
    /\ (last'.op \in Closes /\ Matches(KindOf(last'.op), last'.name)) =>
            Delimited(last'.op, last'.name, xop.xo_style, last'.out)

C2_Delimiters == [][C2_Step]_vars

(* C3: in every reachable state the indent counter of the handle equals    *)
(* the number of open structural levels that were opened under XML or      *)
(* JSON (the levels opened under Text or HTML count zero), whatever calls  *)
(* came before, and is never below zero.                                   *)

OpenMarkupLevels == Cardinality({i \in 2..Len(frames) : frames[i].style \in Markup})

C3_IndentIsOpenLevels == xop.xo_indent = OpenMarkupLevels

(* C4 (as stated): at depth 0 each of close_container, close_list and      *)
(* close_instance, in each of the four styles, gives exactly one warning   *)
(* when Warn is set and none when it is clear, and leaves depth and indent *)
(* unchanged.                                                              *)

EmptyClose(warned) ==
    (xop.xo_depth = 0 /\ last'.op \in Closes) =>
        /\ Len(last'.warns) = (IF warned THEN 1 ELSE 0)
        /\ xop'.xo_depth = 0
        /\ xop'.xo_indent = xop.xo_indent

C4_EveryCloseWarns == [][EmptyClose("WARN" \in xop.xo_flags)]_vars

(* C4 (amended): at depth 0 close_container and close_instance in every    *)
(* style, and close_list in JSON, give exactly one warning when Warn is    *)
(* set and none when it is clear; close_list in XML, Text and HTML never   *)
(* warns; depth and indent are unchanged in every case.                    *)

C4_EmptyCloseWarns ==
    [][EmptyClose("WARN" \in xop.xo_flags
                  /\ (last'.op # "close_list" \/ xop.xo_style = "JSON"))]_vars

(* A close_container met an empty stack with Warn set and warned.          *)

C4_WarnedOnEmpty ==
    /\ last.op = "close_container"
    /\ "WARN" \in xop.xo_flags
    /\ last.warns = <<"close with empty stack">>
    /\ xop.xo_depth = 0

(* C5: with Warn set, a close of the kind of the top frame under a name    *)
(* different from the name given at the matching open gives exactly one    *)
(* warning, "incorrect close", and still takes effect: the depth goes down *)
(* by one and, in XML and JSON, the closing delimiter for the requested    *)
(* name is handed to the sink.                                             *)

C5_Step ==
    ( /\ "WARN" \in xop.xo_flags
      /\ last'.op \in Closes
      /\ xop.xo_depth > 0
      /\ Len(frames) > 1
      /\ Top.kind = KindOf(last'.op)
      /\ Top.name # last'.name ) =>
        /\ last'.warns = <<"incorrect close">>
        /\ xop'.xo_depth = xop.xo_depth - 1
        /\ xop.xo_style \in Markup =>
                Delimited(last'.op, last'.name, xop.xo_style, last'.out)

C5_IncorrectClose == [][C5_Step]_vars

(* C6: with Warn set, a close whose kind differs from the kind of the open *)
(* that pushed the top frame, and which pops that frame, reports a         *)
(* flag-mismatch warning (the list conflict or the instance conflict one). *)

FlagMismatch == {"list close on list confict", "list close on instance confict"}

C6_Step ==
    ( /\ "WARN" \in xop.xo_flags
      /\ last'.op \in Closes
      /\ xop.xo_depth > 0
      /\ Len(frames) > 1
      /\ Top.kind # KindOf(last'.op)
      /\ xop'.xo_depth = xop.xo_depth - 1 ) =>
        \E i \in 1..Len(last'.warns) : last'.warns[i] \in FlagMismatch

C6_KindMismatchWarns == [][C6_Step]_vars

(* C7: the value an emit call returns is the value the write callback of   *)
(* the sink returned for that call; a callback that reports an error makes *)
(* the emit call return that error.                                        *)

C7_EmitReturnsWrite ==
    (last.op = "emit" /\ last.wrc # <<>>) => last.rc = last.wrc[Len(last.wrc)]

(* C8: when a grow of the format-work buffer or of the data buffer fails   *)
(* during an emit call, the emit call returns a negative value.            *)

C8_NoMemoryIsNegative == (last.op = "emit" /\ last.nomem) => last.rc < 0

(* C9: every structural operation returns the result of the sink write it  *)
(* performed when it writes, and zero when it writes nothing.              *)

C9_StructuralReturn ==
    last.op \in Opens \cup Closes =>
        last.rc = (IF last.wrc # <<>> THEN last.wrc[Len(last.wrc)] ELSE 0)

(* C10: an emit call in which no allocation fails invokes the write        *)
(* callback of the sink exactly once; an emit call in which an allocation  *)
(* fails invokes it zero times; no emit call invokes it more than once.    *)

C10_WriteOnce ==
    last.op = "emit" => Len(last.out) = (IF last.nomem THEN 0 ELSE 1)

(* C11: the call that follows the destruction of the default handle        *)
(* initialises it to the state of a first use: depth 0, indent 0, no       *)
(* formatter hook, no info table, no close callback, and only the style    *)
(* and the flags of the defaults and of LIBXO_OPTIONS, whatever state the  *)
(* handle had before the destroy.                                          *)

FirstUse(h) ==
    /\ h.xo_depth = 0
    /\ h.xo_indent = 0
    /\ h.xo_formatter = NULL
    /\ h.xo_info = NULL
    /\ h.xo_close = NULL
    /\ h.xo_flags = LIBXO_OPTIONS.flags
    /\ h.xo_style = (IF LIBXO_OPTIONS.style # NULL THEN LIBXO_OPTIONS.style ELSE "TEXT")

C11_ReinitIsFirstUse == last.op = "default_init" => FirstUse(xop)

(* C12: after xo_destroy returns, nothing the handle owned is still        *)
(* allocated: not the data buffer, not the format-work buffer, not the     *)
(* stack array, not a name copied for a frame.                             *)

Allocated ==
    (IF xop.xo_data # Freed THEN {"data"} ELSE {})
    \cup (IF xop.xo_fmt # Freed THEN {"fmt"} ELSE {})
    \cup (IF xo_default_inited THEN {"stack"} ELSE {})
    \cup (IF xop.lost \/ \E i \in 0..MaxDepth : Owned(xop.xo_stack[i].xs_name)
          THEN {"names"} ELSE {})

C12_DestroyReleasesAll == last.op = "destroy" => Allocated = {}

(* C13 (as stated): in JSON style the value of a value field with neither  *)
(* the Q nor the N modifier, with or without an encode-fmt, is wrapped in  *)
(* double quotes if and only if its print-fmt ends in 's'.  (The text of   *)
(* such a field holds the quote that opens the name and, when the value is *)
(* quoted, two more.)                                                      *)

Unforced == { call \in FieldCalls : call.mods \in {<<>>, <<"H">>} }

EndsInS(fmt) == fmt[Len(fmt)].c = "s"

QuotedIff(call, fmt) ==
    (xop.xo_style = "JSON" /\ last.op = "emit" /\ last.name = call.id) =>
        /\ Len(last.out) = 1
        /\ Count(last.out[1], "\"") = (IF EndsInS(fmt) THEN 3 ELSE 1)

C13_QuotedByPrintFmt == \A call \in Unforced : QuotedIff(call, call.print)

(* C13 (amended): the value is quoted if and only if the format JSON uses  *)
(* for it, the encode-fmt when the field has one and the print-fmt         *)
(* otherwise, ends in 's'.                                                 *)

C13_QuotedByUsedFmt ==
    \A call \in Unforced :
        QuotedIff(call, IF call.encode # <<>> THEN call.encode ELSE call.print)

(* A field with print-fmt %d and encode-fmt %s was written in JSON, its    *)
(* value in quotes.                                                        *)

C13_EncodedQuoted ==
    /\ xop.xo_style = "JSON"
    /\ last.op = "emit"
    /\ last.name = "d/s"
    /\ Contains(last.out[1], Str(<<"\"", "7", "\"">>))

(* C14: in Text style a value field with the H modifier contributes        *)
(* nothing to the output, and the same field without H contributes its     *)
(* formatted value.                                                        *)

C14_HiddenInText ==
    (xop.xo_style = "TEXT" /\ last.op = "emit") =>
        /\ last.name = "Hd" => last.out = << <<>> >>
        /\ last.name = "d" => last.out = <<Str(<<"7">>)>>

(* C15: an escaped-braces span '{{' X '}}' consumes exactly its braces and *)
(* X; X is emitted as text and the walk resumes at the byte right after    *)
(* the closing '}}', so that in Text style "x{{y}}z" comes out as "xyz".   *)

C15_EscapedBracesKeepNext ==
    (xop.xo_style = "TEXT" /\ last.op = "emit" /\ last.name = "escaped") =>
        last.out = <<Str(<<"x", "y", "z">>)>>

(* C16: with a formatter hook set, the string handed to the hook for a     *)
(* brace field is exactly the bytes strictly between the '{' and the '}'   *)
(* of the field, with neither brace.                                       *)

Between(call) == SubSeq(call.fmt, 2, Len(call.fmt) - 1)

C16_HookGetsContent ==
    \A call \in FieldCalls :
        (last.op = "emit" /\ last.name = call.id /\ xop.xo_formatter # NULL) =>
            last.hook = <<Between(call)>>

(* C17: in XML style with Pretty set, every opening tag, closing tag and   *)
(* value element is preceded by exactly (nesting level x indent_by) spaces *)
(* and followed by a newline, a closing tag at the level of its opening    *)
(* tag; with Pretty clear there are no spaces and no newlines.             *)

Line(level, text) ==
    IF "PRETTY" \in xop.xo_flags
    THEN Spaces(level * xop.xo_indent_by) \o text \o Str(<<"\n">>)
    ELSE text

C17_Step ==
    xop.xo_style = "XML" =>
        /\ last'.op \in {"open_container", "open_instance"} =>
                last'.out = <<Line(Len(frames) - 1, Str(<<"<", last'.name, ">">>))>>
        /\ ( /\ last'.op \in {"close_container", "close_instance"}
             /\ Matches(KindOf(last'.op), last'.name) ) =>
                last'.out = <<Line(Len(frames) - 2,
                                   Lit("</", 2) \o Str(<<last'.name, ">">>))>>
        /\ (last'.op = "emit" /\ last'.name = "number") =>
                last'.out = <<Line(Len(frames) - 1,
                                   Str(<<"<", "a", ">", "7">>) \o Lit("</", 2)
                                   \o Str(<<"a", ">">>))>>

C17_PrettyXml == [][C17_Step]_vars

(* C18: in JSON style without Pretty, the output of a balanced sequence    *)
(* that starts at depth 0 with open_container is one JSON object inside an *)
(* outermost '{' ... '}' pair, each name followed by a colon and one       *)
(* space: the first open starts its text with '{', the close that returns  *)
(* to depth 0 ends its text with '}', and a value field writes its name,   *)
(* '":', one space and the value.                                          *)

Fresh == xop.xo_depth = 0 /\ Len(frames) = 1 /\ ~Top.kids

C18_Outermost ==
    (last'.op = "open_container" /\ Fresh) => Head(last'.out[1]).c = "{"

C18_Closed ==
    (last'.op = "close_container" /\ xop.xo_depth = 1
        /\ Matches("container", last'.name)) =>
            last'.out[1][Len(last'.out[1])].c = "}"

C18_Colon ==
    (last'.op = "emit" /\ last'.name = "number") =>
        Contains(last'.out[1], Str(<<"\"", "a">>) \o Lit("\":", 2) \o Str(<<" ", "7">>))

C18_Step ==
    (xop.xo_style = "JSON" /\ "PRETTY" \notin xop.xo_flags /\ last'.out # <<>>) =>
        C18_Outermost /\ C18_Closed /\ C18_Colon

C18_JsonDocument == [][C18_Step]_vars

(* C19: with the style fixed at HTML, over any sequence of emit calls, the *)
(* line divs open and close in strict alternation starting with an open,   *)
(* every element div lies inside an open line div, every '\n' of a format  *)
(* string closes exactly one line div, and the DivOpen flag is set exactly *)
(* when an opened line div has not been closed yet.                        *)

LineMode(h) == IF "DIV_OPEN" \in h.xo_flags THEN "line" ELSE "closed"

ElementOpens == {"<div class=\"", "<div class=\"title\">"}

RECURSIVE LineScan(_, _)
LineScan(p, mode) ==
    IF p = <<>> \/ mode = "bad" THEN mode
    ELSE LineScan(Tail(p),
            CASE Head(p).c = "<div class=\"line\">" ->
                    IF mode = "closed" THEN "line" ELSE "bad"
              [] Head(p).c \in ElementOpens ->
                    IF mode = "line" THEN "element" ELSE "bad"
              [] Head(p).c = "</div>" ->
                    IF mode = "element" THEN "line"
                    ELSE IF mode = "line" THEN "closed" ELSE "bad"
              [] OTHER -> mode)

LineCloses(p) ==
    Count(p, "</div>") - Cardinality({i \in 1..Len(p) : p[i].c \in ElementOpens})

C19_Step ==
    (xop.xo_style = "HTML" /\ last'.op = "emit" /\ last'.out # <<>>) =>
        /\ LineScan(last'.out[1], LineMode(xop)) = LineMode(xop')
        /\ \A call \in HtmlCalls :
                last'.name = call.id =>
                    LineCloses(last'.out[1]) = Count(call.fmt, "\n")

C19_LineDivs == [][C19_Step]_vars

(* C20: in HTML style with Xpath set from the start, the data-xpath        *)
(* attribute of a named value field is '/' and the names of the open       *)
(* frames in the order they were opened, joined by '/', then '/' and the   *)
(* name of the field, after any sequence of opens and closes.              *)

RECURSIVE FramePath(_)
FramePath(i) ==
    IF i > Len(frames) THEN <<>>
    ELSE Str(<<"/", frames[i].name>>) \o FramePath(i + 1)

DataXpath(field) ==
    Lit("\" data-xpath=\"", 14) \o FramePath(2) \o Str(<<"/", field>>) \o Lit("\">", 2)

C20_Step ==
    (xop.xo_style = "HTML" /\ "XPATH" \in xop.xo_flags /\ last'.op = "emit") =>
        /\ last'.name = "number" =>
                Len(last'.out) = 1 /\ Contains(last'.out[1], DataXpath("a"))
        /\ last'.name = "string" =>
                Len(last'.out) = 1 /\ Contains(last'.out[1], DataXpath("b"))

C20_XpathIsOpenFrames == [][C20_Step]_vars

(* C21: parsing ends inside the format string for every input: for a       *)
(* format string that ends inside a braces field, the cursor of the        *)
(* modifier loop stops at or before the terminating NUL and the emit call  *)
(* finishes with a defined payload.                                        *)

FieldStart(fmt) == Scan(fmt, 1, {"{"})

Parsed(fmt, warn) ==
    Modifiers(fmt, FieldStart(fmt) + 1,
              [sp |-> FieldStart(fmt) + 1, style |-> NULL, flags |-> {},
               warns |-> <<>>, past |-> FALSE], warn)

C21_Step ==
    last'.op = "emit" =>
        \A call \in UnterminatedCalls :
            last'.name = call.id =>
                /\ ~Parsed(call.fmt, "WARN" \in xop.xo_flags).past
                /\ Parsed(call.fmt, "WARN" \in xop.xo_flags).sp <= Len(call.fmt) + 1
                /\ last'.rc >= 0
                /\ last'.out # <<Garbage>>

C21_ParsingStaysInside == [][C21_Step]_vars

(* C22: after any sequence of ensure_room, append and indent operations    *)
(* with arbitrary lengths n, whenever ensure_room(n) reports success the n *)
(* bytes fit between the insertion point and the end of the buffer, and    *)
(* the insertion point lies within [start, start + capacity) of the        *)
(* current memory of the buffer, also after a grow that moved the memory.  *)

C22_RoomFits ==
    (last.op \in BufOps /\ last.ok) => last.used + last.n <= last.xb.size

C22_PointWithin ==
    last.op \in BufOps => ~last.xb.wild /\ last.xb.len < last.xb.size

C22_BufferBounds == C22_RoomFits /\ C22_PointWithin

(* C23: when no allocation fails, the payload an emit call hands to the    *)
(* sink is the complete substitution result: one write whose length is the *)
(* value the call returns, for every result length, a result as long as    *)
(* the capacity of the data buffer and a longer one included.              *)

C23_Step ==
    (last'.op = "emit" /\ ~last'.nomem) =>
        /\ Len(last'.out) = 1
        /\ TextLen(last'.out[1]) = last'.rc

C23_PayloadIsComplete == [][C23_Step]_vars

(* C24: every pop that decrements the depth releases the name owned by the *)
(* popped frame and leaves its slot without a name, whether Xpath or Warn  *)
(* made the push store it; so no slot above the current depth holds a      *)
(* name.                                                                   *)

C24_Step ==
    (xop'.xo_depth = xop.xo_depth - 1 /\ Owned(xop.xo_stack[xop.xo_depth].xs_name)) =>
        /\ xop'.xo_stack[xop.xo_depth].xs_name = NULL
        /\ \A i \in DOMAIN xop'.xo_stack :
                i > xop'.xo_depth => ~Owned(xop'.xo_stack[i].xs_name)

C24_PopReleasesName == [][C24_Step]_vars

(* C25: a handle returned by create(style, flags) has exactly the style    *)
(* and the flags passed to create, and the default indent-by, whatever the *)
(* LIBXO_OPTIONS environment string contains.                              *)

C25_CreateKeepsArguments ==
    (last.op = "create" /\ ~last.nomem) =>
        /\ xop.xo_style = last.hook[1].style
        /\ xop.xo_flags = last.hook[1].flags
        /\ xop.xo_indent_by = XO_INDENT_BY

(* C27: a handle freshly returned by create(style, flags) starts in a      *)
(* fully defined state: depth 0, indent counter 0, the root frame with     *)
(* NotFirst clear and no name, no formatter hook, no close callback and no *)
(* info table.                                                             *)

C27_CreatedIsDefined ==
    (last.op = "create" /\ ~last.nomem) =>
        /\ xop.xo_depth = 0
        /\ xop.xo_indent = 0
        /\ "NOT_FIRST" \notin xop.xo_stack[0].xs_flags
        /\ xop.xo_stack[0].xs_name = NULL
        /\ xop.xo_formatter = NULL
        /\ xop.xo_close = NULL
        /\ xop.xo_info = NULL

(* C26: after any sequence of open and close calls the depth stays within  *)
(* 0 <= depth < stack size, and an open made when the stack is full writes *)
(* no frame at index stack size or beyond.                                 *)

C26_DepthInsideStack ==
    /\ xop.xo_depth >= 0
    /\ xop.xo_depth < XO_DEPTH
    /\ xop.xo_depth \in DOMAIN xop.xo_stack

(* C28: after any sequence of open, close, set_flags and clear_flags calls *)
(* every name stored in a slot at index 1..depth is the name passed to the *)
(* open that pushed the frame now in that slot, and a frame pushed while   *)
(* Xpath and Warn were both clear has no name.                             *)

C28_Step ==
    /\ \A i \in 1..xop'.xo_depth :
            Owned(xop'.xo_stack[i].xs_name) =>
                xop'.xo_stack[i].xs_name = frames'[i + 1].name
    /\ (xop'.xo_depth = xop.xo_depth + 1 /\ ~Keeps(xop)) =>
            ~Owned(xop'.xo_stack[xop'.xo_depth].xs_name)

C28_NamesAreCurrent == [][C28_Step]_vars

====
